---- MODULE Spec2Model ----
(***************************************************************************)
(* Model of backup.py: the .backuprc loader (BackupConfig), Shell, the     *)
(* sync phase (RunBackup), the snapshot rotation (MakeSnapshot) and the    *)
(* module-level dispatcher.  Every cron line starts one process; a process *)
(* is a position (pc) in the script plus its local variables.  The host    *)
(* filesystem (generation directories, `current`, the encfs mount) and the *)
(* log file are shared by all processes.                                   *)
(***************************************************************************)
EXTENDS Integers, Sequences, FiniteSets, TLC

VARIABLES
  cfg,              \* attributes of the loaded BackupConfig object
  argv,             \* argv[p]: sys.argv[1:] of process p
  argi,             \* argv index of the dispatcher's for loop (1-based)
  pc,               \* pc[p]: position of process p in the script
  exc,              \* exc[p]: the exception propagating in p, or "none"
  frequency,        \* MakeSnapshot's parameter
  total_snapshots,  \* MakeSnapshot's local
  ii,               \* MakeSnapshot's loop variable
  fi,               \* RunBackup: index of the next FILEPATHS entry (1-based)
  fs,               \* generation directories under ENCRYPTED_MOUNTPOINT
  current,          \* version of ENCRYPTED_MOUNTPOINT/current
  mounted,          \* encfs is mounted on DECRYPTED_MOUNTPOINT
  shlog,            \* shlog[p]: the commands p handed to Shell, with exit code
  logfile,          \* lines written through logging, in order
  fs0,              \* fs0[p]: fs when p entered MakeSnapshot (history)
  fsInit,           \* fs when the processes were started (history)
  taken,            \* taken[p]: the snapshots p's cp -al created (history)
  sh,               \* one Shell call seen from inside: Popen object, child, pipes
  rcfile,           \* BackupConfig: the lines of the config file
  lineno,           \* BackupConfig.Process: the next line to read (1-based)
  dict,             \* BackupConfig: self.__dict__
  loadexc           \* BackupConfig.Process: the exception raised, or "none"

vars == <<cfg, argv, argi, pc, exc, frequency, total_snapshots, ii, fi, fs,
          current, mounted, shlog, logfile, fs0, fsInit, taken, sh,
          rcfile,
          lineno,
          dict, loadexc>>

loadVars == <<rcfile, lineno, dict, loadexc>>

(***************************************************************************)
(* Bounds                                                                  *)
(***************************************************************************)
MaxDepth == 3       \* largest generation count in a SNAPSHOTS table
MaxPaths == 3       \* longest FILEPATHS list
MaxArgs == 2        \* longest argument list
MaxLines == 3       \* longest config file
MaxRuns == 4        \* most runs of one cron line
MaxOutput == 3      \* most blocks a command writes to one stream

Procs == {"cron1", "cron2"}

Frequencies == {"daily", "hourly"}          \* tiers that have generations
Tokens == {"snapshot", "sync", "daily", "hourly", "weekly"}

AllPaths == <<"/home/a/", "/home/b.txt", "/etc/", "/srv/">>

\* 32 indicates already mounted
AlreadyMounted == 32

(***************************************************************************)
(* The filesystem                                                          *)
(***************************************************************************)
\* "%s.%s" % (frequency, n) under ENCRYPTED_MOUNTPOINT
GenDir(f, n) == <<f, n>>

\* What a generation directory holds: the tree it was made from (src, n),
\* whether the tree is complete, and the trees that were moved or copied
\* INTO it (mv/cp onto an existing directory nests the source inside it).
Tree(src, n) == [src |-> src, n |-> n, whole |-> TRUE, nested |-> {}]

Restrict(f, S) == [x \in S |-> f[x]]

Exists(tree, d) == d \in DOMAIN tree

\* rm -rf d: not an error if d is absent
RmRf(tree, d) == Restrict(tree, DOMAIN tree \ {d})

\* rm -rf d that exits non-zero: d may be left partly removed
RmRfFailed(tree, d) ==
  IF Exists(tree, d)
    THEN {tree, [tree EXCEPT ![d].whole = FALSE]}
    ELSE {tree}

Inner(t) == [src |-> t.src, n |-> t.n, whole |-> t.whole]

\* a mv that leaves its source behind
MvCopying(tree, s, d) ==
  [x \in DOMAIN tree \cup {d} |-> IF x = d THEN tree[s] ELSE tree[x]]

\* mv s d (s exists): a rename when d is absent, else s ends up inside d
Mv(tree, s, d) ==
  IF Exists(tree, d)
    THEN [x \in DOMAIN tree \ {s} |->
            IF x = d
              THEN [tree[d] EXCEPT !.nested = @ \cup {Inner(tree[s])} \cup tree[s].nested]
              ELSE tree[x]]
    ELSE [x \in (DOMAIN tree \ {s}) \cup {d} |->
            IF x = d THEN tree[s] ELSE tree[x]]

\* cp -al current d: d becomes a hardlink clone of current when d is absent,
\* else the clone is created inside d
CpAl(tree, cur, d) ==
  IF Exists(tree, d)
    THEN [tree EXCEPT ![d].nested = @ \cup {Inner(Tree("current", cur))}]
    ELSE [x \in DOMAIN tree \cup {d} |->
            IF x = d THEN Tree("current", cur) ELSE tree[x]]

\* cp -al that exits non-zero: nothing, or an incomplete clone
CpAlFailed(tree, cur, d) ==
  IF Exists(tree, d)
    THEN {tree}
    ELSE {tree,
          [x \in DOMAIN tree \cup {d} |->
             IF x = d THEN [Tree("current", cur) EXCEPT !.whole = FALSE]
             ELSE tree[x]]}

(***************************************************************************)
(* BackupConfig                                                            *)
(***************************************************************************)
\* A line is a sequence of atoms: a space " ", a tab "\t", a hash "#", or a
\* word (a run of other characters).  self.__dict__ maps an attribute name
\* (the atoms of a key) to its value: a list of lines for FILEPATHS as set
\* by __init__, a string (the atoms of the value) for a KEY VALUE line.
Blank == {" ", "\t"}

FILEPATHS == <<"FILEPATHS">>

ListValue(items) == [kind |-> "list", val |-> items]
StrValue(atoms) == [kind |-> "str", val |-> atoms]

\* line 26: self.FILEPATHS = []
EmptyDict == [k \in {FILEPATHS} |-> ListValue(<<>>)]

RECURSIVE LStrip(_)
LStrip(l) == IF l # <<>> /\ Head(l) \in Blank THEN LStrip(Tail(l)) ELSE l

RECURSIVE RStrip(_)
RStrip(l) ==
  IF l # <<>> /\ l[Len(l)] \in Blank THEN RStrip(SubSeq(l, 1, Len(l) - 1)) ELSE l

\* line 37: line.strip()
Strip(l) == RStrip(LStrip(l))

\* line 39: not line or line[0] == '#'
Skipped(l) == IF l = <<>> THEN TRUE ELSE l[1] = "#"

\* line 42: ' ' in line
HasSpace(l) == \E k \in 1..Len(l) : l[k] = " "

FirstSpace(l) == CHOOSE k \in 1..Len(l) : l[k] = " " /\ \A j \in 1..(k - 1) : l[j] # " "

\* line 43: line.split(' ', 1)
SplitKey(l) == SubSeq(l, 1, FirstSpace(l) - 1)
SplitValue(l) == SubSeq(l, FirstSpace(l) + 1, Len(l))

\* the attribute written by line 44
StoreKey(l) == SplitKey(l)

Line == Strip(rcfile[lineno])

Reading == lineno <= Len(rcfile) /\ loadexc = "none"

\* lines 36-39: a blank line or a comment
P_Skip ==
  /\ Reading
  /\ Skipped(Line)
  /\ lineno' = lineno + 1
  /\ UNCHANGED <<rcfile, dict, loadexc>>
  /\ UNCHANGED <<cfg, argv, argi, pc, exc, frequency, total_snapshots, ii, fi,
                 fs, current, mounted, shlog, logfile, fs0, fsInit, taken, sh>>

\* the store written as a setdefault: a key keeps its first value
SetAttrKeepFirst(d, key, value) ==
  IF key \in DOMAIN d /\ d[key].kind = "str" THEN d
  ELSE [k \in DOMAIN d \cup {key} |-> IF k = key THEN value ELSE d[k]]

\* line 44: self.__dict__[key] = value
SetAttr(d, key, value) ==
  [k \in DOMAIN d \cup {key} |-> IF k = key THEN value ELSE d[k]]

\* lines 42-44: self.__dict__[key] = value
P_KeyValue ==
  /\ Reading
  /\ ~Skipped(Line)
  /\ HasSpace(Line)
  /\ dict' = SetAttr(dict, StoreKey(Line), StrValue(SplitValue(Line)))
  /\ lineno' = lineno + 1
  /\ UNCHANGED <<rcfile, loadexc>>
  /\ UNCHANGED <<cfg, argv, argi, pc, exc, frequency, total_snapshots, ii, fi,
                 fs, current, mounted, shlog, logfile, fs0, fsInit, taken, sh>>

\* lines 45-46: self.FILEPATHS.append(line); a str has no append
P_Path ==
  /\ Reading
  /\ ~Skipped(Line)
  /\ ~HasSpace(Line)
  /\ IF dict[FILEPATHS].kind = "list"
       THEN /\ dict' = [dict EXCEPT ![FILEPATHS] = ListValue(Append(@.val, Line))]
            /\ lineno' = lineno + 1
            /\ loadexc' = loadexc
       ELSE /\ loadexc' = "AttributeError"
            /\ UNCHANGED <<dict, lineno>>
  /\ rcfile' = rcfile
  /\ UNCHANGED <<cfg, argv, argi, pc, exc, frequency, total_snapshots, ii, fi,
                 fs, current, mounted, shlog, logfile, fs0, fsInit, taken, sh>>

Process == P_Skip \/ P_KeyValue \/ P_Path

(***************************************************************************)
(* Shell                                                                   *)
(***************************************************************************)
Cmd(name, arg, rc) == [cmd |-> name, arg |-> arg, rc |-> rc]

\* a Shell that never raises
SucceededAlways(rc) == TRUE

\* line 81, `if process.wait():` -- only exit code 0 does not raise
Succeeded(rc) == rc = 0

\* Shell(cmd): run, wait, raise ShellError when the exit code is not 0
Shell(p, name, arg, rc) == shlog' = [shlog EXCEPT ![p] = Append(@, Cmd(name, arg, rc))]

ExitCodes == {0, 1}

(***************************************************************************)
(* One Shell call seen from inside (lines 77-83): the child writes to two  *)
(* pipes that nobody reads while Shell sits in process.wait()              *)
(***************************************************************************)
Streams == {"stdout", "stderr"}

\* what a pipe holds before a write to it blocks (the kernel's pipe buffer,
\* counted in blocks)
PipeCapacity == 2

NoShell ==
  [pc |-> "none", child |-> "none", rc |-> 0,
   left |-> [s \in Streams |-> 0],
   pipe |-> [s \in Streams |-> 0],
   read |-> [s \in Streams |-> 0]]

\* a Shell call leaves the rest of the program's state alone
ShellFrame ==
  /\ UNCHANGED <<cfg, argv, argi, pc, exc, frequency, total_snapshots, ii, fi,
                 fs, current, mounted, shlog, logfile, fs0, fsInit, taken>>
  /\ UNCHANGED loadVars

\* lines 78-80: Popen(cmd, shell=True, stdout=PIPE, stderr=PIPE)
Popen ==
  /\ sh.pc = "popen"
  /\ sh' = [sh EXCEPT !.pc = "wait", !.child = "running"]
  /\ ShellFrame

\* the child writes one block; the write blocks while the pipe is full
ChildWrite(s) ==
  /\ sh.child = "running"
  /\ sh.left[s] > 0
  /\ sh.pipe[s] < PipeCapacity
  /\ sh' = [sh EXCEPT !.left[s] = @ - 1, !.pipe[s] = @ + 1]
  /\ ShellFrame

\* the child exits once it has written all it has to write
ChildExit ==
  /\ sh.child = "running"
  /\ \A s \in Streams : sh.left[s] = 0
  /\ sh' = [sh EXCEPT !.child = "exited"]
  /\ ShellFrame

\* line 81: process.wait() returns the exit code once the child has exited;
\* it reads from neither pipe
ProcessWait ==
  /\ sh.pc = "wait"
  /\ sh.child = "exited"
  /\ sh' = [sh EXCEPT !.pc = IF Succeeded(sh.rc) THEN "returned" ELSE "communicate"]
  /\ ShellFrame

\* lines 82-83: communicate() drains both pipes, then raise ShellError
Communicate ==
  /\ sh.pc = "communicate"
  /\ sh' = [sh EXCEPT !.pc = "raised",
                      !.read = [s \in Streams |-> sh.read[s] + sh.pipe[s]],
                      !.pipe = [s \in Streams |-> 0]]
  /\ ShellFrame

ShellCall ==
  \/ Popen
  \/ \E s \in Streams : ChildWrite(s)
  \/ ChildExit
  \/ ProcessWait
  \/ Communicate

Raise(p, e, where) ==
  /\ exc' = [exc EXCEPT ![p] = e]
  /\ pc' = [pc EXCEPT ![p] = where]

(***************************************************************************)
(* MakeSnapshot(cfg, frequency)                                            *)
(***************************************************************************)
RECURSIVE LookupFrom(_, _, _, _)
\* the for loop over cfg.SNAPSHOTS.split(','): the last pair whose key is
\* the frequency sets total_snapshots
LookupFrom(table, f, k, acc) ==
  IF k > Len(table) THEN acc
  ELSE LookupFrom(table, f, k + 1,
                  IF table[k].key = f THEN table[k].value ELSE acc)

TotalSnapshots(table, f) == LookupFrom(table, f, 1, 0)

\* lines 122-129: the lookup and the assert.  The assert's message names
\* frequency_type, which is not defined: building the message raises
\* NameError in place of AssertionError.
AssertFailure == "NameError"

\* the assert written as total_snapshots >= 0
CountOkNonNegative(n) == n >= 0

\* line 128: assert total_snapshots > 0
CountOk(n) == n > 0

MS_Lookup(p) ==
  /\ pc[p] = "ms_lookup"
  /\ LET n == TotalSnapshots(cfg.SNAPSHOTS, frequency[p]) IN
       /\ total_snapshots' = [total_snapshots EXCEPT ![p] = n]
       /\ fs0' = [fs0 EXCEPT ![p] = fs]
       /\ IF CountOk(n)
            THEN /\ pc' = [pc EXCEPT ![p] = "ms_rm"]
                 /\ exc' = exc
            ELSE Raise(p, AssertFailure, "ms_raised")
  /\ UNCHANGED <<cfg, argv, argi, frequency, ii, fi, fs, current, mounted,
                 shlog, logfile, fsInit, taken, sh>>
  /\ UNCHANGED loadVars

\* the oldest generation named one too low
BackupToDeleteOffByOne(p) == GenDir(frequency[p], total_snapshots[p] - 1)

\* line 132-134: rm -rf frequency.total_snapshots
BackupToDelete(p) == GenDir(frequency[p], total_snapshots[p])

MS_Rm(p) ==
  /\ pc[p] = "ms_rm"
  /\ \E rc \in ExitCodes :
       /\ Shell(p, "rm", BackupToDelete(p), rc)
       /\ IF Succeeded(rc)
            THEN /\ fs' = RmRf(fs, BackupToDelete(p))
                 /\ pc' = [pc EXCEPT ![p] = "ms_loop"]
                 /\ ii' = [ii EXCEPT ![p] = total_snapshots[p]]
                 /\ exc' = exc
            ELSE /\ fs' \in RmRfFailed(fs, BackupToDelete(p))
                 /\ Raise(p, "ShellError", "ms_raised")
                 /\ ii' = ii
  /\ UNCHANGED <<cfg, argv, argi, frequency, total_snapshots, fi, current,
                 mounted, logfile, fs0, fsInit, taken, sh>>
  /\ UNCHANGED loadVars

\* the loop written as range(total_snapshots, 2, -1)
LoopDoneEarly(p) == ii[p] <= 2

\* line 137: for ii in range(total_snapshots, 1, -1)
LoopDone(p) == ii[p] <= 1
SourceBackup(p) == GenDir(frequency[p], ii[p] - 1)
DestBackup(p) == GenDir(frequency[p], ii[p])
\* the loop written with a step of -2
NextIiByTwo(i) == i - 2

NextIi(i) == i - 1

\* lines 137-142: the loop head and os.path.exists(source_backup)
MS_Loop(p) ==
  /\ pc[p] = "ms_loop"
  /\ IF LoopDone(p)
       THEN /\ pc' = [pc EXCEPT ![p] = "ms_cp"]
            /\ ii' = ii
       ELSE IF Exists(fs, SourceBackup(p))
         THEN /\ pc' = [pc EXCEPT ![p] = "ms_mv"]
              /\ ii' = ii
         ELSE /\ pc' = pc
              /\ ii' = [ii EXCEPT ![p] = NextIi(@)]
  /\ UNCHANGED <<cfg, argv, argi, exc, frequency, total_snapshots, fi, fs,
                 current, mounted, shlog, logfile, fs0, fsInit, taken, sh>>
  /\ UNCHANGED loadVars

\* line 143: mv source_backup dest_backup
MS_Mv(p) ==
  /\ pc[p] = "ms_mv"
  /\ \E rc \in (IF Exists(fs, SourceBackup(p)) THEN ExitCodes ELSE {1}) :
       /\ Shell(p, "mv", <<SourceBackup(p), DestBackup(p)>>, rc)
       /\ IF Succeeded(rc)
            THEN /\ fs' = Mv(fs, SourceBackup(p), DestBackup(p))
                 /\ pc' = [pc EXCEPT ![p] = "ms_loop"]
                 /\ ii' = [ii EXCEPT ![p] = NextIi(@)]
                 /\ exc' = exc
            ELSE /\ fs' = fs
                 /\ Raise(p, "ShellError", "ms_raised")
                 /\ ii' = ii
  /\ UNCHANGED <<cfg, argv, argi, frequency, total_snapshots, fi, current,
                 mounted, logfile, fs0, fsInit, taken, sh>>
  /\ UNCHANGED loadVars

\* the snapshot directory named without the frequency
SnapshotDestFixedName(p) == GenDir("daily", 1)

\* lines 146-148: cp -al current frequency.1
SnapshotDest(p) == GenDir(frequency[p], 1)

MS_Cp(p) ==
  /\ pc[p] = "ms_cp"
  /\ \E rc \in ExitCodes :
       /\ Shell(p, "cp", SnapshotDest(p), rc)
       /\ IF Succeeded(rc)
            THEN /\ fs' = CpAl(fs, current, SnapshotDest(p))
                 /\ taken' = [taken EXCEPT ![p] = Append(@, Tree("current", current))]
                 /\ pc' = [pc EXCEPT ![p] = "ms_return"]
                 /\ exc' = exc
            ELSE /\ fs' \in CpAlFailed(fs, current, SnapshotDest(p))
                 /\ Raise(p, "ShellError", "ms_raised")
                 /\ taken' = taken
  /\ UNCHANGED <<cfg, argv, argi, frequency, total_snapshots, ii, fi, current,
                 mounted, logfile, fs0, fsInit, sh>>
  /\ UNCHANGED loadVars

\* lines 137-143 run to the end without a failure: the shift from i down to 2
RECURSIVE ShiftFrom(_, _, _)
ShiftFrom(tree, f, i) ==
  IF i <= 1 THEN tree
  ELSE ShiftFrom(IF Exists(tree, GenDir(f, i - 1))
                   THEN Mv(tree, GenDir(f, i - 1), GenDir(f, i))
                   ELSE tree,
                 f, i - 1)

\* lines 131-148 run alone, every command exiting 0
Rotation(tree, f, n, cur) ==
  CpAl(ShiftFrom(RmRf(tree, GenDir(f, n)), f, n), cur, GenDir(f, 1))

MakeSnapshot(p) ==
  \/ MS_Lookup(p)
  \/ MS_Rm(p)
  \/ MS_Loop(p)
  \/ MS_Mv(p)
  \/ MS_Cp(p)

(***************************************************************************)
(* RunBackup(cfg)                                                          *)
(***************************************************************************)
HasAttr(c, name) == name \in DOMAIN c

Log(p, msg, arg) == [proc |-> p, msg |-> msg, arg |-> arg]

MountExitCodes == {0, 1, AlreadyMounted}

\* the pre-mount's ShellError never swallowed
ToleratedNever(rc) == FALSE

\* line 96: the ShellError of the pre-mount is swallowed iff returncode = 32
Tolerated(rc) == rc = AlreadyMounted

\* lines 88-98.  Without cfg.PRE_MOUNT the AttributeError is passed over and
\* the local `premount` stays unbound: line 94 then raises UnboundLocalError
\* (not a ShellError, so it is neither caught nor logged here) before any
\* command is run.
RB_PreMount(p) ==
  /\ pc[p] = "rb_premount"
  /\ IF ~HasAttr(cfg, "PRE_MOUNT")
       THEN /\ Raise(p, "UnboundLocalError", "rb_raised")
            /\ UNCHANGED <<shlog, logfile>>
       ELSE \E rc \in MountExitCodes :
              /\ Shell(p, "mount", cfg.PRE_MOUNT, rc)
              /\ IF Succeeded(rc) \/ Tolerated(rc)
                   THEN /\ pc' = [pc EXCEPT ![p] = "rb_encfs"]
                        /\ UNCHANGED <<exc, logfile>>
                   ELSE /\ logfile' = Append(logfile, Log(p, "Pre Mount Failed", "ShellError"))
                        /\ Raise(p, "ShellError", "rb_raised")
  /\ UNCHANGED <<cfg, argv, argi, frequency, total_snapshots, ii, fi, fs,
                 current, mounted, fs0, fsInit, taken, sh>>
  /\ UNCHANGED loadVars

\* lines 101-104: echo password | encfs -S current DECRYPTED_MOUNTPOINT
RB_Encfs(p) ==
  /\ pc[p] = "rb_encfs"
  /\ \E rc \in ExitCodes :
       /\ Shell(p, "encfs", "current", rc)
       /\ IF Succeeded(rc)
            THEN /\ mounted' = TRUE
                 /\ pc' = [pc EXCEPT ![p] = "rb_rsync"]
                 /\ fi' = [fi EXCEPT ![p] = 1]
                 /\ exc' = exc
            ELSE /\ Raise(p, "ShellError", "rb_raised")
                 /\ UNCHANGED <<mounted, fi>>
  /\ UNCHANGED <<cfg, argv, argi, frequency, total_snapshots, ii, fs, current,
                 logfile, fs0, fsInit, taken, sh>>
  /\ UNCHANGED loadVars

\* lines 107-110: for filepath in cfg.FILEPATHS: rsync filepath into the
\* decrypted mount point.  A mirror that succeeds changes `current`; one that
\* fails may have copied some files already (nothing is rolled back).
\* the loop stepping over an entry
NextPathSkipping(i) == i + 2

NextPath(i) == i + 1

RB_Rsync(p) ==
  /\ pc[p] = "rb_rsync"
  /\ IF fi[p] > Len(cfg.FILEPATHS)
       THEN /\ pc' = [pc EXCEPT ![p] = "rb_unmount"]
            /\ UNCHANGED <<exc, fi, current, shlog>>
       ELSE \E rc \in ExitCodes :
              /\ Shell(p, "rsync", cfg.FILEPATHS[fi[p]], rc)
              /\ IF Succeeded(rc)
                   THEN /\ current' = current + 1
                        /\ fi' = [fi EXCEPT ![p] = NextPath(@)]
                        /\ UNCHANGED <<pc, exc>>
                   ELSE /\ current' \in {current, current + 1}
                        /\ Raise(p, "ShellError", "rb_raised")
                        /\ fi' = fi
  /\ UNCHANGED <<cfg, argv, argi, frequency, total_snapshots, ii, fs, mounted,
                 logfile, fs0, fsInit, taken, sh>>
  /\ UNCHANGED loadVars

\* should_unmount written as UNMOUNT_AT_END != "False"
ShouldUnmountUnlessFalse(c) ==
  IF "UNMOUNT_AT_END" \in DOMAIN c THEN c.UNMOUNT_AT_END # "False" ELSE TRUE

\* lines 113-117: should_unmount
ShouldUnmount(c) ==
  IF HasAttr(c, "UNMOUNT_AT_END") THEN c.UNMOUNT_AT_END = "True" ELSE TRUE

\* lines 118-119: fusermount -u DECRYPTED_MOUNTPOINT
RB_Unmount(p) ==
  /\ pc[p] = "rb_unmount"
  /\ IF ShouldUnmount(cfg)
       THEN \E rc \in ExitCodes :
              /\ Shell(p, "fusermount", "-u", rc)
              /\ IF Succeeded(rc)
                   THEN /\ mounted' = FALSE
                        /\ pc' = [pc EXCEPT ![p] = "rb_return"]
                        /\ exc' = exc
                   ELSE /\ mounted' = mounted
                        /\ Raise(p, "ShellError", "rb_raised")
       ELSE /\ pc' = [pc EXCEPT ![p] = "rb_return"]
            /\ UNCHANGED <<exc, mounted, shlog>>
  /\ UNCHANGED <<cfg, argv, argi, frequency, total_snapshots, ii, fi, fs,
                 current, logfile, fs0, fsInit, taken, sh>>
  /\ UNCHANGED loadVars

RunBackup(p) ==
  \/ RB_PreMount(p)
  \/ RB_Encfs(p)
  \/ RB_Rsync(p)
  \/ RB_Unmount(p)

(***************************************************************************)
(* The module-level dispatcher                                             *)
(***************************************************************************)
\* `sync` taken for a trigger as well
IsTriggerOrSync(tok) == tok \in {"snapshot", "sync"}

\* lines 155 and 166: the token that triggers the sync phase
IsTrigger(tok) == tok = "snapshot"

InArgs(p, tok) == \E k \in 1..Len(argv[p]) : argv[p][k] = tok

\* line 155-158
D_Start(p) ==
  /\ pc[p] = "start"
  /\ IF \E k \in 1..Len(argv[p]) : IsTrigger(argv[p][k])
       THEN /\ logfile' = Append(logfile, Log(p, "Start Backup", ""))
            /\ pc' = [pc EXCEPT ![p] = "rb_premount"]
       ELSE /\ logfile' = logfile
            /\ pc' = [pc EXCEPT ![p] = "loop"]
  /\ UNCHANGED <<cfg, argv, argi, exc, frequency, total_snapshots, ii, fi, fs,
                 current, mounted, shlog, fs0, fsInit, taken, sh>>
  /\ UNCHANGED loadVars

\* lines 159-160: except Exception: logging.exception(...)
D_SyncExcept(p) ==
  /\ pc[p] = "rb_raised"
  /\ logfile' = Append(logfile, Log(p, "Unhandled exception", exc[p]))
  /\ pc' = [pc EXCEPT ![p] = "sync_finally"]
  /\ UNCHANGED <<cfg, argv, argi, exc, frequency, total_snapshots, ii, fi, fs,
                 current, mounted, shlog, fs0, fsInit, taken, sh>>
  /\ UNCHANGED loadVars

\* lines 161-163: finally: logging.info("End Backup"); the raise ends the
\* process
D_SyncFinally(p) ==
  /\ pc[p] \in {"rb_return", "sync_finally"}
  /\ logfile' = Append(logfile, Log(p, "End Backup", ""))
  /\ pc' = [pc EXCEPT ![p] = IF exc[p] = "none" THEN "loop" ELSE "crashed"]
  /\ argi' = [argi EXCEPT ![p] = 1]
  /\ UNCHANGED <<cfg, argv, exc, frequency, total_snapshots, ii, fi, fs,
                 current, mounted, shlog, fs0, fsInit, taken, sh>>
  /\ UNCHANGED loadVars

\* a loop that rotates a frequency at its first occurrence only
RotatesFirstOccurrence(p, k) ==
  /\ ~IsTrigger(argv[p][k])
  /\ \A j \in 1..(k - 1) : argv[p][j] # argv[p][k]

\* line 166: if arg != 'snapshot'
Rotates(p, k) == ~IsTrigger(argv[p][k])

\* lines 165-169: for arg in sys.argv[1:]: if arg != 'snapshot': ...
D_Loop(p) ==
  /\ pc[p] = "loop"
  /\ IF argi[p] > Len(argv[p])
       THEN /\ pc' = [pc EXCEPT ![p] = "exit"]
            /\ UNCHANGED <<argi, frequency, logfile>>
       ELSE IF Rotates(p, argi[p])
         THEN /\ logfile' = Append(logfile, Log(p, "Start Snapshot", argv[p][argi[p]]))
              /\ frequency' = [frequency EXCEPT ![p] = argv[p][argi[p]]]
              /\ pc' = [pc EXCEPT ![p] = "ms_lookup"]
              /\ argi' = argi
         ELSE /\ argi' = [argi EXCEPT ![p] = @ + 1]
              /\ UNCHANGED <<pc, frequency, logfile>>
  /\ UNCHANGED <<cfg, argv, exc, total_snapshots, ii, fi, fs, current, mounted,
                 shlog, fs0, fsInit, taken, sh>>
  /\ UNCHANGED loadVars

\* the handler without its logging.exception
D_SnapExceptSilent(p) ==
  /\ pc[p] = "ms_raised"
  /\ pc' = [pc EXCEPT ![p] = "snap_finally"]
  /\ UNCHANGED <<cfg, argv, argi, exc, frequency, total_snapshots, ii, fi, fs,
                 current, mounted, shlog, logfile, fs0, fsInit, taken, sh>>
  /\ UNCHANGED loadVars

\* lines 170-171
D_SnapExcept(p) ==
  /\ pc[p] = "ms_raised"
  /\ logfile' = Append(logfile, Log(p, "Unhandled exception", exc[p]))
  /\ pc' = [pc EXCEPT ![p] = "snap_finally"]
  /\ UNCHANGED <<cfg, argv, argi, exc, frequency, total_snapshots, ii, fi, fs,
                 current, mounted, shlog, fs0, fsInit, taken, sh>>
  /\ UNCHANGED loadVars

\* the handler without its raise: the loop goes on to the next token
D_SnapFinallyNoRaise(p) ==
  /\ pc[p] \in {"ms_return", "snap_finally"}
  /\ logfile' = Append(logfile, Log(p, "End Snapshot", argv[p][argi[p]]))
  /\ pc' = [pc EXCEPT ![p] = "loop"]
  /\ argi' = [argi EXCEPT ![p] = @ + 1]
  /\ UNCHANGED <<cfg, argv, exc, frequency, total_snapshots, ii, fi, fs,
                 current, mounted, shlog, fs0, fsInit, taken, sh>>
  /\ UNCHANGED loadVars

\* lines 172-174
D_SnapFinally(p) ==
  /\ pc[p] \in {"ms_return", "snap_finally"}
  /\ logfile' = Append(logfile, Log(p, "End Snapshot", argv[p][argi[p]]))
  /\ IF exc[p] = "none"
       THEN /\ pc' = [pc EXCEPT ![p] = "loop"]
            /\ argi' = [argi EXCEPT ![p] = @ + 1]
       ELSE /\ pc' = [pc EXCEPT ![p] = "crashed"]
            /\ argi' = argi
  /\ UNCHANGED <<cfg, argv, exc, frequency, total_snapshots, ii, fi, fs,
                 current, mounted, shlog, fs0, fsInit, taken, sh>>
  /\ UNCHANGED loadVars

Dispatcher(p) ==
  \/ D_Start(p)
  \/ D_SyncExcept(p)
  \/ D_SyncFinally(p)
  \/ D_Loop(p)
  \/ D_SnapExcept(p)
  \/ D_SnapFinally(p)

(***************************************************************************)
(* Initial states                                                          *)
(***************************************************************************)
\* A generation left by an earlier run: its tree is named after the place
\* it stands in initially.
OldTree(d) == Tree(d[1], d[2])

AllGens == {GenDir(f, n) : f \in Frequencies, n \in 1..MaxDepth}

InitFs(S) == [d \in S |-> OldTree(d)]

Pair(k, v) == [key |-> k, value |-> v]

\* cfg.SNAPSHOTS, already split into its key=value pairs
Tables ==
  {<<Pair("daily", n), Pair("hourly", 2)>> : n \in 0..MaxDepth}
    \cup {<<Pair("hourly", 1), Pair("daily", n)>> : n \in {-1} \cup 1..MaxDepth}
    \cup {<<Pair("daily", MaxDepth), Pair("daily", n)>> : n \in 0..1}

Config(table, paths, opt) ==
  [x \in {"SNAPSHOTS", "FILEPATHS"} \cup DOMAIN opt |->
     IF x = "SNAPSHOTS" THEN table
     ELSE IF x = "FILEPATHS" THEN paths
     ELSE opt[x]]

NoOptions == [x \in {} |-> ""]

Idle == [p \in Procs |-> "idle"]

InitCommon ==
  /\ argi = [p \in Procs |-> 1]
  /\ exc = [p \in Procs |-> "none"]
  /\ total_snapshots = [p \in Procs |-> 0]
  /\ ii = [p \in Procs |-> 0]
  /\ fi = [p \in Procs |-> 1]
  /\ current = 1
  /\ mounted = FALSE
  /\ shlog = [p \in Procs |-> <<>>]
  /\ logfile = <<>>
  /\ fs0 = [p \in Procs |-> fs]
  /\ fsInit = fs
  /\ taken = [p \in Procs |-> <<>>]
  /\ rcfile = <<>>
  /\ lineno = 1
  /\ dict = EmptyDict
  /\ loadexc = "none"

\* MakeSnapshot(cfg, F) called on its own, by one process
InitRotate ==
  /\ \E t \in Tables : cfg = Config(t, <<>>, NoOptions)
  /\ \E S \in SUBSET AllGens : fs = InitFs(S)
  /\ \E f \in Tokens \ {"snapshot"} :
       /\ frequency = [p \in Procs |-> IF p = "cron1" THEN f ELSE ""]
       /\ argv = [p \in Procs |-> IF p = "cron1" THEN <<f>> ELSE <<>>]
  /\ pc = [Idle EXCEPT !["cron1"] = "ms_lookup"]
  /\ InitCommon
  /\ sh = NoShell

NextRotate == \E p \in Procs : MakeSnapshot(p)

SpecRotate == InitRotate /\ [][NextRotate]_vars

\* The optional directives: each absent or set
Options ==
  {[x \in S |-> IF x = "PRE_MOUNT" THEN "/dev/sdb1" ELSE u] :
     S \in SUBSET {"PRE_MOUNT", "UNMOUNT_AT_END"}, u \in {"True", "False", "true"}}

PathLists == {SubSeq(AllPaths, 1, k) : k \in 0..MaxPaths}

\* RunBackup(cfg) called on its own, by one process
InitBackup ==
  /\ \E o \in Options, ps \in PathLists :
       cfg = Config(<<Pair("daily", 1)>>, ps, o)
  /\ \E S \in {{}, {GenDir("daily", 1)}} : fs = InitFs(S)
  /\ frequency = [p \in Procs |-> ""]
  /\ argv = [p \in Procs |-> IF p = "cron1" THEN <<"snapshot">> ELSE <<>>]
  /\ pc = [Idle EXCEPT !["cron1"] = "rb_premount"]
  /\ InitCommon
  /\ sh = NoShell

NextBackup == \E p \in Procs : RunBackup(p)

SpecBackup == InitBackup /\ [][NextBackup]_vars

\* argument lists of up to MaxArgs tokens
RECURSIVE SeqsUpTo(_, _)
SeqsUpTo(S, n) ==
  IF n = 0 THEN {<<>>}
  ELSE LET shorter == SeqsUpTo(S, n - 1) IN
         shorter \cup {Append(s, x) : s \in shorter, x \in S}

\* One invocation of the script: python backup.py <argv>
Init ==
  /\ \E o \in Options, ps \in PathLists :
       cfg = Config(<<Pair("daily", 2), Pair("hourly", 1)>>, ps, o)
  /\ \E S \in {{}, {GenDir("daily", 1), GenDir("hourly", 1)}} : fs = InitFs(S)
  /\ frequency = [p \in Procs |-> ""]
  /\ \E a \in SeqsUpTo(Tokens, MaxArgs) :
       argv = [p \in Procs |-> IF p = "cron1" THEN a ELSE <<>>]
  /\ pc = [Idle EXCEPT !["cron1"] = "start"]
  /\ InitCommon
  /\ sh = NoShell

Next == \E p \in Procs : Dispatcher(p) \/ RunBackup(p) \/ MakeSnapshot(p)

Spec == Init /\ [][Next]_vars

\* the runs of the script process p has started; every run of a cron line
\* whose arguments hold the trigger logs one "Start Backup"
Launches(p) ==
  Cardinality({k \in 1..Len(logfile) :
                 logfile[k].proc = p /\ logfile[k].msg = "Start Backup"})

\* cron starts the line again once its previous process has ended: a new
\* process, with the arguments of the line and nothing else kept
CronFire(p) ==
  /\ pc[p] \in {"exit", "crashed"}
  /\ Launches(p) < MaxRuns
  /\ pc' = [pc EXCEPT ![p] = "start"]
  /\ exc' = [exc EXCEPT ![p] = "none"]
  /\ argi' = [argi EXCEPT ![p] = 1]
  /\ frequency' = [frequency EXCEPT ![p] = ""]
  /\ total_snapshots' = [total_snapshots EXCEPT ![p] = 0]
  /\ ii' = [ii EXCEPT ![p] = 0]
  /\ fi' = [fi EXCEPT ![p] = 1]
  /\ shlog' = [shlog EXCEPT ![p] = <<>>]
  /\ UNCHANGED <<cfg, argv, fs, current, mounted, logfile, fs0, fsInit, taken, sh>>
  /\ UNCHANGED loadVars

\* One cron line, `backup.py snapshot daily`, fired again and again; no
\* generation of the tier exists at first
InitRepeat ==
  /\ \E n \in 1..MaxDepth :
       cfg = Config(<<Pair("daily", n)>>, SubSeq(AllPaths, 1, 1),
                    [x \in {"PRE_MOUNT"} |-> "/dev/sdb1"])
  /\ \E S \in {{}, {GenDir("hourly", 1)}} : fs = InitFs(S)
  /\ frequency = [p \in Procs |-> ""]
  /\ argv = [p \in Procs |-> IF p = "cron1" THEN <<"snapshot", "daily">> ELSE <<>>]
  /\ pc = [Idle EXCEPT !["cron1"] = "start"]
  /\ InitCommon
  /\ sh = NoShell

NextRepeat == \E p \in Procs : Next \/ CronFire(p)

SpecRepeat == InitRepeat /\ [][NextRepeat]_vars

\* Two cron lines fire together, each rotating a tier of its own
ConcTable == <<Pair("daily", MaxDepth), Pair("hourly", 2)>>

InitConc ==
  /\ cfg = Config(ConcTable, <<>>, NoOptions)
  /\ \E S \in SUBSET AllGens : fs = InitFs(S \cup {GenDir("weekly", 1)})
  /\ \E f \in Frequencies, g \in Frequencies :
       /\ f # g
       /\ frequency = [p \in Procs |-> IF p = "cron1" THEN f ELSE g]
       /\ argv = [p \in Procs |-> IF p = "cron1" THEN <<f>> ELSE <<g>>]
  /\ pc = [p \in Procs |-> "ms_lookup"]
  /\ InitCommon
  /\ sh = NoShell

SpecConc == InitConc /\ [][NextRotate]_vars

\* The lines a config file is made of
LineShapes ==
  { <<>>, <<" ">>,
    <<"#", "note">>, <<" ", "#", " ", "note">>,
    <<"/home/a/">>, <<" ", "/home/b.txt", " ">>, <<"LOG_FILE", "\t", "/tmp/log">>,
    <<"RSYNC_FLAGS", " ", "-a", " ", "--delete">>,
    <<"PRE_MOUNT", " ", "/dev/sdb1">>,
    <<"PRE_MOUNT", " ", " ", "/dev/sdc1">>,
    <<"FILEPATHS", " ", "/home/c/">> }

\* BackupConfig(filename) on a file of up to MaxLines lines
InitConfig ==
  /\ rcfile \in SeqsUpTo(LineShapes, MaxLines)
  /\ lineno = 1
  /\ dict = EmptyDict
  /\ loadexc = "none"
  /\ cfg = Config(<<>>, <<>>, NoOptions)
  /\ fs = InitFs({})
  /\ frequency = [p \in Procs |-> ""]
  /\ argv = [p \in Procs |-> <<>>]
  /\ pc = Idle
  /\ argi = [p \in Procs |-> 1]
  /\ exc = [p \in Procs |-> "none"]
  /\ total_snapshots = [p \in Procs |-> 0]
  /\ ii = [p \in Procs |-> 0]
  /\ fi = [p \in Procs |-> 1]
  /\ current = 1
  /\ mounted = FALSE
  /\ shlog = [p \in Procs |-> <<>>]
  /\ logfile = <<>>
  /\ fs0 = [p \in Procs |-> fs]
  /\ fsInit = fs
  /\ taken = [p \in Procs |-> <<>>]
  /\ sh = NoShell

SpecConfig == InitConfig /\ [][Process]_vars

\* Shell(cmd) for a command that writes up to MaxOutput blocks to each
\* stream and then exits with rc
InitShell ==
  /\ \E a \in 0..MaxOutput, b \in 0..MaxOutput, rc \in ExitCodes :
       sh = [NoShell EXCEPT !.pc = "popen", !.rc = rc,
                            !.left = [s \in Streams |-> IF s = "stdout" THEN a ELSE b]]
  /\ cfg = Config(<<>>, <<>>, NoOptions)
  /\ fs = InitFs({})
  /\ frequency = [p \in Procs |-> ""]
  /\ argv = [p \in Procs |-> <<>>]
  /\ pc = Idle
  /\ InitCommon

SpecShell == InitShell /\ [][ShellCall]_vars

\* the scheduler runs the child and the script whenever they can take a step
SpecShellLive == SpecShell /\ WF_vars(ShellCall)

(***************************************************************************)
(* Properties                                                              *)
(***************************************************************************)
Part(tree, f) == Restrict(tree, {d \in DOMAIN tree : d[1] = f})

\* a tree with this origin is held somewhere, at top level or nested
Held(tree, src, n) ==
  \E d \in DOMAIN tree :
    \/ tree[d].src = src /\ tree[d].n = n
    \/ \E t \in tree[d].nested : t.src = src /\ t.n = n

\* C1: after a successful MakeSnapshot(cfg, F) with depth N >= 1, from any
\* set of existing generations: F.1 is a complete clone of `current`, F.i
\* (2 <= i <= N) is exactly the old F.(i-1) and is absent when that was
\* absent, and the tree the old F.N held is nowhere any more.
C1_RotationShifts ==
  \A p \in Procs : pc[p] = "ms_return" =>
    LET F == frequency[p]
        N == total_snapshots[p]
        old == fs0[p]
    IN /\ N >= 1
       /\ exc[p] = "none"
       /\ Exists(fs, GenDir(F, 1))
       /\ fs[GenDir(F, 1)] = Tree("current", current)
       /\ \A i \in 2..N :
            IF Exists(old, GenDir(F, i - 1))
              THEN Exists(fs, GenDir(F, i)) /\ fs[GenDir(F, i)] = old[GenDir(F, i - 1)]
              ELSE ~Exists(fs, GenDir(F, i))
       /\ ~Held(fs, F, N)

\* C1 witness: depth 3, daily.1 and daily.2 exist, daily.3 does not, and the
\* rotation has returned
C1_Witness ==
  \E p \in Procs :
    /\ pc[p] = "ms_return"
    /\ frequency[p] = "daily"
    /\ total_snapshots[p] = 3
    /\ DOMAIN Part(fs0[p], "daily") = {GenDir("daily", 1), GenDir("daily", 2)}

\* the frequency is no key of the table, or the count of its (last) entry is
\* not positive
InvalidFrequency(table, f) ==
  LET K == {k \in 1..Len(table) : table[k].key = f} IN
    \/ K = {}
    \/ table[CHOOSE k \in K : \A j \in K : j <= k].value <= 0

\* C3: MakeSnapshot for a frequency that is absent from SNAPSHOTS or whose
\* count is <= 0 fails without having run any command: no generation
\* directory and not `current` has changed.
C3_InvalidFrequencyNoMutation ==
  \A p \in Procs :
    (pc[p] \notin {"idle", "ms_lookup"} /\ InvalidFrequency(cfg.SNAPSHOTS, frequency[p])) =>
      /\ pc[p] = "ms_raised"
      /\ exc[p] # "none"
      /\ shlog[p] = <<>>
      /\ fs = fsInit
      /\ current = 1

\* C3 witness: "weekly" is not in the table, generations exist, the call failed
C3_Witness ==
  \E p \in Procs :
    /\ pc[p] = "ms_raised"
    /\ frequency[p] = "weekly"
    /\ InvalidFrequency(cfg.SNAPSHOTS, "weekly")
    /\ DOMAIN fs # {}

\* C9: two rotations of different frequencies, interleaved in any way: a
\* rotation that returns leaves its own chain as if it had run alone from the
\* initial directories, the directories of a frequency nobody rotates stay
\* as they were, and when both have returned the directories are those of
\* running one after the other, in either order.
C9_ConcurrentRotationsIndependent ==
  LET F == frequency["cron1"]
      G == frequency["cron2"]
      N == total_snapshots["cron1"]
      M == total_snapshots["cron2"]
  IN /\ \A p \in Procs : pc[p] = "ms_return" =>
          Part(fs, frequency[p]) =
            Part(Rotation(fsInit, frequency[p], total_snapshots[p], current), frequency[p])
     /\ Part(fs, "weekly") = Part(fsInit, "weekly")
     /\ (\A p \in Procs : pc[p] = "ms_return") =>
          /\ fs = Rotation(Rotation(fsInit, F, N, current), G, M, current)
          /\ fs = Rotation(Rotation(fsInit, G, M, current), F, N, current)

\* C9 witness: both rotations returned, and the second one started while the
\* first was in the middle of its own chain
C9_Witness ==
  /\ \A p \in Procs : pc[p] = "ms_return"
  /\ Part(fs0["cron2"], frequency["cron1"]) # Part(fsInit, frequency["cron1"])
  /\ Part(fs0["cron2"], frequency["cron1"]) # Part(fs, frequency["cron1"])
  /\ Part(fs0["cron1"], frequency["cron2"]) = Part(fsInit, frequency["cron2"])

IsRsync(c) == c.cmd = "rsync"
Rsyncs(p) == SelectSeq(shlog[p], IsRsync)
Ran(p, name) == \E k \in 1..Len(shlog[p]) : shlog[p][k].cmd = name

\* C2: the rsyncs of a run are issued for FILEPATHS in list order, one per
\* path; when the rsync of the j-th path exits non-zero, the j-1 rsyncs
\* before it each ran once and exited 0, it is the last rsync of the run,
\* fusermount is not run, and RunBackup ends by raising the ShellError.
C2_StopAtFirstFailedRsync ==
  \A p \in Procs :
    LET R == Rsyncs(p) IN
      /\ Len(R) <= Len(cfg.FILEPATHS)
      /\ \A k \in 1..Len(R) :
           /\ R[k].arg = cfg.FILEPATHS[k]
           /\ k < Len(R) => R[k].rc = 0
      /\ (Len(R) > 0 /\ R[Len(R)].rc # 0) =>
           /\ pc[p] = "rb_raised"
           /\ exc[p] = "ShellError"
           /\ shlog[p][Len(shlog[p])] = R[Len(R)]
           /\ ~Ran(p, "fusermount")

\* C2 witness: three paths, the second rsync failed after the first succeeded
C2_Witness ==
  \E p \in Procs :
    /\ Len(cfg.FILEPATHS) = 3
    /\ Len(Rsyncs(p)) = 2
    /\ Rsyncs(p)[1].rc = 0
    /\ Rsyncs(p)[2].rc # 0
    /\ pc[p] = "rb_raised"

\* C4: a pre-mount that exits 32 lets the run go on to the encfs mount, just
\* as one that exits 0; a pre-mount that exits with any other non-zero code
\* ends the run with that ShellError, no encfs, rsync or fusermount being run.
C4_PreMountExitCode ==
  \A p \in Procs :
    (Len(shlog[p]) >= 1 /\ shlog[p][1].cmd = "mount") =>
      IF shlog[p][1].rc \in {0, AlreadyMounted}
        THEN \/ pc[p] = "rb_encfs" /\ exc[p] = "none" /\ Len(shlog[p]) = 1
             \/ Len(shlog[p]) >= 2 /\ shlog[p][2].cmd = "encfs"
        ELSE /\ pc[p] = "rb_raised"
             /\ exc[p] = "ShellError"
             /\ Len(shlog[p]) = 1

\* C4 witness: the pre-mount exited 32 and the encfs mount was then run
C4_Witness ==
  \E p \in Procs :
    /\ Len(shlog[p]) >= 2
    /\ shlog[p][1] = Cmd("mount", cfg.PRE_MOUNT, AlreadyMounted)
    /\ shlog[p][2].cmd = "encfs"

\* C5: (as claimed) without a PRE_MOUNT directive the pre-mount step is
\* passed without error and the encfs mount is the first command of the run;
\* with one, the mount is the first command.
C5_NoPreMountStillMounts ==
  \A p \in Procs :
    pc[p] \notin {"idle", "rb_premount"} =>
      IF HasAttr(cfg, "PRE_MOUNT")
        THEN Len(shlog[p]) >= 1 /\ shlog[p][1].cmd = "mount"
        ELSE \/ pc[p] = "rb_encfs" /\ exc[p] = "none"
             \/ Len(shlog[p]) >= 1 /\ shlog[p][1].cmd = "encfs"

\* the run came to the end of the rsync loop with every mirror done
AllMirrored(p) ==
  /\ \E k \in 1..Len(shlog[p]) : shlog[p][k] = Cmd("encfs", "current", 0)
  /\ Len(Rsyncs(p)) = Len(cfg.FILEPATHS)
  /\ \A k \in 1..Len(Rsyncs(p)) : Rsyncs(p)[k].rc = 0

UnmountWanted ==
  ~HasAttr(cfg, "UNMOUNT_AT_END") \/ cfg.UNMOUNT_AT_END = "True"

\* C6: fusermount is run only after every path was mirrored, and once
\* RunBackup has passed the unmount step it has run fusermount iff
\* UNMOUNT_AT_END is absent or equal to "True"; with any other value no
\* fusermount is run and the mount point stays mounted.
C6_UnmountIffAbsentOrTrue ==
  \A p \in Procs :
    /\ Ran(p, "fusermount") => AllMirrored(p) /\ UnmountWanted
    /\ (pc[p] \in {"rb_return", "rb_raised"} /\ AllMirrored(p)) =>
         (Ran(p, "fusermount") <=> UnmountWanted)
    /\ (pc[p] = "rb_return" /\ ~UnmountWanted) => mounted
    /\ (pc[p] = "rb_return" /\ UnmountWanted) => ~mounted

\* C6 witness: UNMOUNT_AT_END is not configured, all three paths were
\* mirrored and the mount point was unmounted
C6_Witness ==
  \E p \in Procs :
    /\ pc[p] = "rb_return"
    /\ ~HasAttr(cfg, "UNMOUNT_AT_END")
    /\ Len(cfg.FILEPATHS) = 3
    /\ shlog[p][Len(shlog[p])] = Cmd("fusermount", "-u", 0)

Logged(p, msg) == \E k \in 1..Len(logfile) : logfile[k].proc = p /\ logfile[k].msg = msg

\* the frequencies process p handed to MakeSnapshot, in order
StartedFrequencies(p) ==
  LET IsStart(e) == e.proc = p /\ e.msg = "Start Snapshot"
      starts == SelectSeq(logfile, IsStart)
  IN [k \in 1..Len(starts) |-> starts[k].arg]

FailurePcs == {"rb_raised", "ms_raised", "sync_finally", "snap_finally", "crashed"}

\* the exception in p was raised by the sync phase
SyncFailed(p) ==
  \/ exc[p] = "UnboundLocalError"
  \/ /\ exc[p] = "ShellError"
     /\ shlog[p][Len(shlog[p])].cmd \in {"mount", "encfs", "rsync", "fusermount"}

\* C7: once a phase has raised, the process runs no further command, starts
\* no further phase and only goes through the handler to its end with the
\* exception still raised; it never exits normally; and when it is the sync
\* phase that failed, no rotation was or is started.
C7_FailFast ==
  /\ [](\A p \in Procs :
          /\ exc[p] # "none" => pc[p] \in FailurePcs
          /\ SyncFailed(p) =>
               /\ ~Logged(p, "Start Snapshot")
               /\ ~Ran(p, "rm") /\ ~Ran(p, "mv") /\ ~Ran(p, "cp"))
  /\ [][\A p \in Procs :
          exc[p] # "none" =>
            /\ exc'[p] = exc[p]
            /\ shlog'[p] = shlog[p]
            /\ StartedFrequencies(p)' = StartedFrequencies(p)
            /\ pc'[p] \in FailurePcs]_vars

\* C7 witness: two tokens, the rotation of the first failed in its rm, the
\* process has ended and the second token was never started
C7_Witness ==
  \E p \in Procs :
    /\ pc[p] = "crashed"
    /\ Len(argv[p]) = 2
    /\ Ran(p, "rm")
    /\ StartedFrequencies(p) = <<argv[p][1]>>

NotSnapshot(tok) == tok # "snapshot"
NeitherSyncNorSnapshot(tok) == tok \notin {"sync", "snapshot"}

IsPrefix(s, t) == Len(s) <= Len(t) /\ \A k \in 1..Len(s) : s[k] = t[k]

\* C8 (as claimed): the sync phase runs iff `sync` or `snapshot` is among the
\* arguments, neither is ever handed to MakeSnapshot, every other token is.
C8_SyncOrSnapshotTriggers ==
  \A p \in Procs :
    pc[p] \notin {"idle", "start"} =>
      /\ Logged(p, "Start Backup") <=> (InArgs(p, "sync") \/ InArgs(p, "snapshot"))
      /\ IsPrefix(StartedFrequencies(p), SelectSeq(argv[p], NeitherSyncNorSnapshot))

\* C8 (amended): the sync phase runs iff `snapshot` is among the arguments;
\* `snapshot` is never handed to MakeSnapshot; every other token, `sync`
\* included, is handed to MakeSnapshot as a frequency, in argument order, as
\* long as no earlier phase has failed.
C8_SnapshotTriggers ==
  \A p \in Procs :
    pc[p] \notin {"idle", "start"} =>
      /\ Logged(p, "Start Backup") <=> InArgs(p, "snapshot")
      /\ IsPrefix(StartedFrequencies(p), SelectSeq(argv[p], NotSnapshot))
      /\ Len(StartedFrequencies(p)) > 0 =>
           frequency[p] = StartedFrequencies(p)[Len(StartedFrequencies(p))]
      /\ pc[p] = "exit" => StartedFrequencies(p) = SelectSeq(argv[p], NotSnapshot)

\* C8 witness: `snapshot` and `sync` are both given; the sync phase ran and
\* `sync` was then handed to MakeSnapshot
C8_Witness ==
  \E p \in Procs :
    /\ Logged(p, "Start Backup")
    /\ Logged(p, "End Backup")
    /\ StartedFrequencies(p) = <<"sync">>
    /\ frequency[p] = "sync"

\* the lines of the file by kind, after trimming
IsComment(l) == IF Strip(l) = <<>> THEN TRUE ELSE Strip(l)[1] = "#"
IsKeyValueLine(l) == ~IsComment(l) /\ " " \in {Strip(l)[k] : k \in 1..Len(Strip(l))}
IsPathLine(l) == ~IsComment(l) /\ ~IsKeyValueLine(l)

KeyOfLine(l) ==
  LET t == Strip(l)
      sp == CHOOSE k \in 1..Len(t) : t[k] = " " /\ \A j \in 1..(k - 1) : t[j] # " "
  IN SubSeq(t, 1, sp - 1)

KeyValueLines == {k \in 1..Len(rcfile) : IsKeyValueLine(rcfile[k])}

DistinctKeys ==
  \A i \in KeyValueLines, j \in KeyValueLines :
    i # j => KeyOfLine(rcfile[i]) # KeyOfLine(rcfile[j])

PathLinesOf(file) ==
  LET trimmed == [k \in 1..Len(file) |-> Strip(file[k])]
      IsPath(t) == t # <<>> /\ t[1] # "#" /\ " " \notin {t[k] : k \in 1..Len(t)}
  IN SelectSeq(trimmed, IsPath)

Loaded == lineno > Len(rcfile) \/ loadexc # "none"

\* C10: (as claimed) a file of N path lines and K key/value lines with
\* pairwise distinct keys, plus blank and comment lines, loads without error
\* into a path list of exactly the N path lines in file order and K
\* key/value entries.
C10_LoadCounts ==
  (Loaded /\ DistinctKeys) =>
    /\ loadexc = "none"
    /\ dict[FILEPATHS] = ListValue(PathLinesOf(rcfile))
    /\ Cardinality({k \in DOMAIN dict : dict[k].kind = "str"}) = Cardinality(KeyValueLines)

ValueOfLine(l) ==
  LET t == Strip(l)
      sp == CHOOSE k \in 1..Len(t) : t[k] = " " /\ \A j \in 1..(k - 1) : t[j] # " "
  IN SubSeq(t, sp + 1, Len(t))

\* the key/value lines read so far that carry key
LinesWithKey(key) ==
  {k \in KeyValueLines : k < lineno /\ KeyOfLine(rcfile[k]) = key}

LastOf(S) == CHOOSE k \in S : \A j \in S : j <= k

\* C11: at every point of the load, and so in the loaded configuration, a
\* key that stood on one or several key/value lines holds the value of the
\* last of them, whatever lines stand in between.
C11_LastOccurrenceWins ==
  \A i \in KeyValueLines :
    LET key == KeyOfLine(rcfile[i]) IN
      LinesWithKey(key) # {} =>
        /\ key \in DOMAIN dict
        /\ dict[key] = StrValue(ValueOfLine(rcfile[LastOf(LinesWithKey(key))]))

\* C11 witness: a file loaded without error in which a key stands on two
\* lines with different values and another line in between
C11_Witness ==
  /\ Loaded
  /\ loadexc = "none"
  /\ \E i \in KeyValueLines, j \in KeyValueLines :
       /\ i + 1 < j
       /\ KeyOfLine(rcfile[i]) = KeyOfLine(rcfile[j])
       /\ ValueOfLine(rcfile[i]) # ValueOfLine(rcfile[j])
       /\ dict[KeyOfLine(rcfile[j])] = StrValue(ValueOfLine(rcfile[j]))

\* C12: in a rotation run alone from any set of existing generations, a mv
\* is issued only when its destination F.i does not exist and the cp only
\* when F.1 does not exist; no directory ever holds another one inside it.
C12_DestinationAbsent ==
  \A p \in Procs :
    /\ pc[p] = "ms_mv" =>
         /\ Exists(fs, GenDir(frequency[p], ii[p] - 1))
         /\ ~Exists(fs, GenDir(frequency[p], ii[p]))
    /\ pc[p] = "ms_cp" => ~Exists(fs, GenDir(frequency[p], 1))
    /\ \A d \in DOMAIN fs : fs[d].nested = {}

\* C12 witness: depth 3 with daily.1, daily.2 and daily.3 all present; both
\* mv have run and the cp is about to be issued
C12_Witness ==
  \E p \in Procs :
    /\ pc[p] = "ms_cp"
    /\ frequency[p] = "daily"
    /\ total_snapshots[p] = 3
    /\ DOMAIN Part(fs0[p], "daily") = {GenDir("daily", n) : n \in 1..3}
    /\ Len(shlog[p]) = 3
    /\ shlog[p][3] = Cmd("mv", <<GenDir("daily", 1), GenDir("daily", 2)>>, 0)

RotationPcs == {"ms_lookup", "ms_rm", "ms_loop", "ms_mv", "ms_cp", "ms_return",
                "ms_raised", "snap_finally"}

\* a rotation of p has failed
RotationFailed(p) ==
  \E k \in 2..Len(logfile) :
    /\ logfile[k].proc = p
    /\ logfile[k].msg = "Unhandled exception"
    /\ logfile[k - 1].msg = "Start Snapshot"

Min(a, b) == IF a <= b THEN a ELSE b

\* C13: with depth N and no generation of F at first, after k >= 1 rotations
\* of F that all succeeded the generations of F are exactly F.1..F.min(k,N)
\* and F.i is the snapshot taken by rotation number k-i+1.
C13_ChainAfterKRotations ==
  \A p \in Procs :
    LET F == "daily"
        N == cfg.SNAPSHOTS[1].value
        k == Len(taken[p])
    IN (k >= 1 /\ ~RotationFailed(p) /\ pc[p] \notin RotationPcs \ {"ms_return"}) =>
         /\ DOMAIN Part(fs, F) = {GenDir(F, i) : i \in 1..Min(k, N)}
         /\ \A i \in 1..Min(k, N) : fs[GenDir(F, i)] = taken[p][k - i + 1]

\* C13 witness: depth 3, four rotations done, each of a different state of
\* `current`
C13_Witness ==
  \E p \in Procs :
    /\ Len(taken[p]) = 4
    /\ cfg.SNAPSHOTS[1].value = 3
    /\ ~RotationFailed(p)
    /\ pc[p] = "exit"
    /\ \A i \in 1..4, j \in 1..4 : i # j => taken[p][i] # taken[p][j]

\* the names of tier f under which the tree t is held
NamesOf(tree, f, t) == {d \in DOMAIN tree : d[1] = f /\ tree[d] = t}

\* C14: when a command of a rotation of F fails, that command is the last one
\* the rotation runs, `current` is as it was, and every snapshot the old
\* F.1..F.(N-1) held is still there, under exactly one name of F.
C14_FailedRotationLosesNothing ==
  \A p \in Procs :
    (pc[p] = "ms_raised" /\ exc[p] = "ShellError") =>
      LET F == frequency[p]
          N == total_snapshots[p]
          old == fs0[p]
          n == Len(shlog[p])
      IN /\ n >= 1
         /\ shlog[p][n].rc # 0
         /\ \A k \in 1..(n - 1) : shlog[p][k].rc = 0
         /\ current = 1
         /\ \A i \in 1..(N - 1) :
              Exists(old, GenDir(F, i)) =>
                /\ Cardinality(NamesOf(fs, F, old[GenDir(F, i)])) = 1
                /\ \A d \in DOMAIN fs : Inner(old[GenDir(F, i)]) \notin fs[d].nested

\* C14 witness: depth 3, daily.1 and daily.2 present, both mv done and the
\* cp -al failed
C14_Witness ==
  \E p \in Procs :
    /\ pc[p] = "ms_raised"
    /\ exc[p] = "ShellError"
    /\ frequency[p] = "daily"
    /\ total_snapshots[p] = 3
    /\ {GenDir("daily", 1), GenDir("daily", 2)} \subseteq DOMAIN fs0[p]
    /\ Len(shlog[p]) = 4
    /\ shlog[p][4].cmd = "cp"
    /\ fs[GenDir("daily", 3)] = fs0[p][GenDir("daily", 2)]

\* C15: rsync (and the unmount) run only after the encfs mount of the same
\* run exited 0; an encfs that exits non-zero is the last command of the
\* run, which ends by raising the ShellError.
C15_RsyncOnlyAfterEncfs ==
  \A p \in Procs :
    LET L == shlog[p] IN
      /\ \A k \in 1..Len(L) :
           L[k].cmd \in {"rsync", "fusermount"} =>
             \E j \in 1..(k - 1) : L[j] = Cmd("encfs", "current", 0)
      /\ \A j \in 1..Len(L) :
           (L[j].cmd = "encfs" /\ L[j].rc # 0) =>
             /\ j = Len(L)
             /\ pc[p] = "rb_raised"
             /\ exc[p] = "ShellError"

\* C15 witness: three paths to mirror, the pre-mount done, encfs failed
C15_Witness ==
  \E p \in Procs :
    /\ Len(cfg.FILEPATHS) = 3
    /\ Len(shlog[p]) = 2
    /\ shlog[p][1].cmd = "mount"
    /\ shlog[p][2] = Cmd("encfs", "current", 1)
    /\ pc[p] = "rb_raised"

\* the positions of p's entries with this message in the log file
Entries(p, msg) == {k \in 1..Len(logfile) : logfile[k].proc = p /\ logfile[k].msg = msg}

\* C16: in one invocation the sync phase starts and ends at most once and,
\* with the trigger anywhere among the arguments, has ended before the first
\* rotation starts and before any rm, mv or cp; the rotations started are
\* the non-trigger tokens in argument order, one per occurrence, and all of
\* them once the process exits normally.
C16_SyncOnceThenRotationsInOrder ==
  \A p \in Procs :
    /\ Cardinality(Entries(p, "Start Backup")) <= 1
    /\ Cardinality(Entries(p, "End Backup")) <= 1
    /\ (InArgs(p, "snapshot") /\ pc[p] # "start") =>
         /\ Entries(p, "Start Backup") # {}
         /\ \A s \in Entries(p, "Start Snapshot") :
              \E e \in Entries(p, "End Backup") : e < s
         /\ Entries(p, "End Backup") = {} =>
              ~Ran(p, "rm") /\ ~Ran(p, "mv") /\ ~Ran(p, "cp")
         /\ Entries(p, "Start Snapshot") # {} =>
              pc[p] \notin {"rb_premount", "rb_encfs", "rb_rsync", "rb_unmount",
                            "rb_return", "rb_raised", "sync_finally"}
    /\ IsPrefix(StartedFrequencies(p), SelectSeq(argv[p], NotSnapshot))
    /\ pc[p] = "exit" => StartedFrequencies(p) = SelectSeq(argv[p], NotSnapshot)

\* C16 witness: the trigger comes last, `daily snapshot`; the sync ran first
\* and the rotation of daily after it
C16_Witness ==
  \E p \in Procs :
    /\ argv[p] = <<"daily", "snapshot">>
    /\ pc[p] = "exit"
    /\ Ran(p, "rsync")
    /\ StartedFrequencies(p) = <<"daily">>

\* the same with a frequency given twice, `daily daily`: two rotations
C16_WitnessRepeated ==
  \E p \in Procs :
    /\ argv[p] = <<"daily", "daily">>
    /\ pc[p] = "exit"
    /\ StartedFrequencies(p) = <<"daily", "daily">>
    /\ Len(shlog[p]) = 5

\* Shell sits in process.wait() while the child sits in a write to a full
\* pipe: neither can take another step
MutualWait ==
  /\ sh.pc = "wait"
  /\ sh.child = "running"
  /\ \E s \in Streams : sh.left[s] > 0
  /\ \A s \in Streams : sh.left[s] > 0 => sh.pipe[s] = PipeCapacity

\* C17 (as claimed): whatever the command writes to stdout and stderr,
\* Shell eventually returns or raises ShellError.
C17_ShellTerminates == <>(sh.pc \in {"returned", "raised"})

\* C18 (as claimed): a frequency that is absent from SNAPSHOTS or has a
\* count <= 0 makes MakeSnapshot fail with the assertion error that carries
\* the "snapshot requested, 0 copies" message, and with no other error.
C18_InvalidFrequencyAssertion ==
  \A p \in Procs :
    (pc[p] = "ms_raised" /\ InvalidFrequency(cfg.SNAPSHOTS, frequency[p])) =>
      exc[p] = "AssertionError"

\* C19 (as claimed): at every point of the load, for every key name, no
\* line has failed, the path list is the sequence of the path lines read so
\* far, in file order, and the mapping holds exactly the keys of the
\* key/value lines read so far.
C19_PathListAndMappingIndependent ==
  /\ loadexc = "none"
  /\ dict[FILEPATHS] = ListValue(PathLinesOf(SubSeq(rcfile, 1, lineno - 1)))
  /\ {k \in DOMAIN dict : dict[k].kind = "str"} =
       {KeyOfLine(rcfile[i]) : i \in {j \in KeyValueLines : j < lineno}}

\* the lines process p wrote to the log file, in order
PLog(p) ==
  LET Mine(e) == e.proc = p IN SelectSeq(logfile, Mine)

StartMsgs == {"Start Backup", "Start Snapshot"}
EndMsgs == {"End Backup", "End Snapshot"}

\* the phases started and not yet ended among the first k lines of L
Open(L, k) ==
  Cardinality({j \in 1..k : L[j].msg \in StartMsgs})
    - Cardinality({j \in 1..k : L[j].msg \in EndMsgs})

\* the Start line of the phase that line k of L belongs to
StartOf(L, k) ==
  LET S == {j \in 1..(k - 1) : L[j].msg \in StartMsgs} IN
    CHOOSE j \in S : \A i \in S : i <= j

PhasePcs == {"rb_premount", "rb_encfs", "rb_rsync", "rb_unmount", "rb_return",
             "rb_raised", "sync_finally", "ms_lookup", "ms_rm", "ms_loop",
             "ms_mv", "ms_cp", "ms_return", "ms_raised", "snap_finally"}

\* C20: in the log of a process Start and End lines alternate, an End line
\* closes the phase of the Start line before it, an exception is logged only
\* inside a phase, a phase is open exactly while the process is inside it
\* or its handlers, the handler has logged the exception before the End
\* line, a process that has ended has closed every phase it started, and a
\* command is only run while a phase is open (after Start, before End).
C20_StartAndEndBracketEveryPhase ==
  /\ [](\A p \in Procs :
          LET L == PLog(p)
              n == Len(L)
          IN /\ \A k \in 0..n : Open(L, k) \in {0, 1}
             /\ \A k \in 1..n :
                  L[k].msg \in EndMsgs =>
                    /\ L[k].msg = "End Backup" <=> L[StartOf(L, k)].msg = "Start Backup"
                    /\ L[k].arg = L[StartOf(L, k)].arg
             /\ \A k \in 1..n :
                  L[k].msg \notin StartMsgs \cup EndMsgs => Open(L, k) = 1
             /\ Open(L, n) = 1 <=> pc[p] \in PhasePcs
             /\ pc[p] \in {"sync_finally", "snap_finally"} =>
                  L[n] = Log(p, "Unhandled exception", exc[p])
             /\ pc[p] = "crashed" =>
                  /\ n >= 3
                  /\ L[n].msg \in EndMsgs
                  /\ L[n - 1] = Log(p, "Unhandled exception", exc[p]))
  /\ [][\A p \in Procs :
          shlog'[p] # shlog[p] =>
            /\ Open(PLog(p), Len(PLog(p))) = 1
            /\ Open(PLog(p)', Len(PLog(p)')) = 1]_vars

\* C20 witness: `snapshot daily`; the sync ended well, the rotation failed in
\* a command, and the process has ended with five lines in its log
C20_Witness ==
  \E p \in Procs :
    /\ pc[p] = "crashed"
    /\ exc[p] = "ShellError"
    /\ Len(PLog(p)) = 5
    /\ PLog(p)[1].msg = "Start Backup"
    /\ PLog(p)[2].msg = "End Backup"
    /\ PLog(p)[3] = Log(p, "Start Snapshot", "daily")
    /\ PLog(p)[4] = Log(p, "Unhandled exception", "ShellError")
    /\ PLog(p)[5] = Log(p, "End Snapshot", "daily")
    /\ Ran(p, "rsync")
    /\ Ran(p, "mv")

====
